---- MODULE Spec2Model ----
(***************************************************************************)
(* Model of the PON configurator pipeline:                                 *)
(*   PonDictCreator   (src/app/pdf_parser.py)      documents -> records    *)
(*   PonDictProcessor (src/app/data_processer.py)  enrich, classify, group *)
(*   Exporter         (src/app/exporter.py)        records -> sheet rows   *)
(* Python dicts are functions with a string domain; a key the code never   *)
(* wrote is outside the DOMAIN, and dict.get is Get.                        *)
(***************************************************************************)
EXTENDS Integers, Sequences, FiniteSets, TLC

VARIABLES
    pc,                 \* position of main(): "create", then the stages of process()
    todo,               \* order directories create_full_dict has not visited yet
    full_dict,          \* PonDictCreator.full_dict
    key_order,          \* the keys of full_dict in insertion order
    process_dir,        \* order directory _create_pon_dict is working on, or None
    listing,            \* os.listdir(process_dir): the documents, in listing order
    item,               \* number of documents the loop of _create_pon_dict has consumed
    dict_pon,           \* the record _create_pon_dict is filling
    raised,             \* TRUE when the loop was left through "except Exception"
    lookup_df,          \* the circuit reference table read by pl.read_csv
    address_df,         \* the site table read by pl.read_excel
    pon_dict,           \* the local pon_dict of process()
    suspicious_towers,  \* the list add_cvlan_data returns beside the records
    cvlan_slots,        \* per record, the locals cvlan_evc1 and cvlan_evc2
    sorted_by_type,     \* result of sort_by_type
    sorted_by_date,     \* result of sort_by_date, the value process() returns
    xpc,                \* position of Exporter.export: "idle", "open", "rows", "saved"
    template,           \* the cells of the template sheet that hold a value
    sheet_mapping,      \* cell_mapping[sheet_name]: (cell reference, field) pairs
    data,               \* data.values(): the records handed to export, in order
    sheet,              \* the cells of the sheet of the loaded workbook
    fills,              \* the rows _highlight_row has filled
    current_row,        \* the local current_row of export
    exported            \* per record gone through, the row it was written to

vars == <<pc, todo, full_dict, key_order, process_dir, listing, item, dict_pon, raised,
          lookup_df, address_df, pon_dict, suspicious_towers, cvlan_slots,
          sorted_by_type, sorted_by_date,
          xpc, template, sheet_mapping, data, sheet, fills, current_row, exported>>

createVars == <<todo, full_dict, key_order, process_dir, listing, item, dict_pon, raised>>
processVars == <<lookup_df, address_df, pon_dict, suspicious_towers, cvlan_slots,
                 sorted_by_type, sorted_by_date>>
exportVars == <<xpc, template, sheet_mapping, data, sheet, fills, current_row, exported>>

----------------------------------------------------------------------------
(* Values *)

\* Python's None
None == "None"

\* An empty dict
EmptyDict == [k \in {} |-> None]

\* dict.get(k): None for a missing key
Get(d, k) == IF k \in DOMAIN d THEN d[k] ELSE None

\* d[k] = v
Put(d, k, v) == [x \in DOMAIN d \cup {k} |-> IF x = k THEN v ELSE d[x]]

\* Truthiness of the values the records hold: None and "" are falsy
Truthy(v) == v # None /\ v # ""

\* Order identifiers: the names of the directories under tmp_dir
Pons == {"PON_1234", "PON_5678"}

\* The sent dates _parse_date_info finds in the documents
Dates == {"01-02-2024", "03-04-2024"}

\* Tokens the evc pattern \d+\.EVCTAG\.\S*\. can match
EvcTokens == {"1.EVCTAG.A.", "2.EVCTAG.B.", "3.EVCTAG.C."}

\* Tokens the uni pattern \d+\.(UNITAG|...)\.\S*\. can match; \S* may itself
\* carry the evc key
UniTokens == {"1.UNITAG.Y.", "1.UNITAG.EVCTAG."}

\* config["tmo_circuits"]["evc_uniq_keys"] in cir
HasEvcKey(cir) == cir \in EvcTokens \cup {"1.UNITAG.EVCTAG."}

\* any(key in cir for key in config["tmo_circuits"]["uni_uniq_keys"])
HasUniKey(cir) == cir \in UniTokens

----------------------------------------------------------------------------
(* Documents: what the three parsers of PonDictCreator can find in a text *)

\* A document, as far as the parsers look at it: evc / uni is the token on the
\* line after the evc / uni header (None without header or token), date the
\* date after "FDT", name and phone the groups of the "INIT TEL NO" match
\* (one match: both or neither), email the group of the e-mail match.
Doc(e, u, d, n, p, m) ==
    [evc |-> e, uni |-> u, date |-> d, name |-> n, phone |-> p, email |-> m]

\* A text in which nothing matches; also what _extract_pdf_text hands back
\* ("") for a file pdfplumber cannot open
BlankDoc == Doc(None, None, None, None, None, None)

\* Documents that carry a circuit token and nothing else
CircuitDocs ==
    {Doc(e, None, None, None, None, None) : e \in EvcTokens}
    \cup {Doc(None, u, None, None, None, None) : u \in UniTokens}
    \cup {Doc("1.EVCTAG.A.", "1.UNITAG.Y.", None, None, None, None)}

\* The date and contact parts a document can carry
InfoParts ==
    { <<"01-02-2024", "Ann Lee", "555-010-0001", None>>,
      <<"03-04-2024", None, None, "ops@example.com">>,
      <<None, "Bob Ray", "555-010-0002", "noc@example.com">> }

\* Documents that carry date or contact fields, with or without a token
InfoDocs ==
    {Doc(c[1], c[2], i[1], i[2], i[3], i[4]) :
        c \in {<<None, None>>, <<"1.EVCTAG.A.", None>>, <<None, "1.UNITAG.Y.">>},
        i \in InfoParts}

\* Documents of the Record Builder runs
BuildDocs == {BlankDoc} \cup CircuitDocs \cup InfoDocs

\* Documents of the whole-pipeline runs
PipeDocs ==
    { Doc(None, None, "03-04-2024", None, None, None),
      Doc("1.EVCTAG.A.", None, "01-02-2024", None, None, None),
      Doc("2.EVCTAG.B.", None, None, None, None, None),
      Doc(None, "1.UNITAG.Y.", None, None, None, None) }

\* Longest directory listing of a Record Builder run
MaxDocs == 3

\* Longest directory listing of a whole-pipeline run
PipeMaxDocs == 3

\* All listings of at most n documents drawn from D
Listings(D, n) == UNION {[1..k -> D] : k \in 0..n}

----------------------------------------------------------------------------
(* PonDictCreator *)

\* _parse_date_info
ParseDateInfo(doc) == doc.date

\* _parse_contact_info
ParseContactInfo(doc) == [name |-> doc.name, phone |-> doc.phone, email |-> doc.email]

\* _parse_circuit_info: search_header(evc) or search_header(uni)
ParseCircuitInfo(doc) == IF Truthy(doc.evc) THEN doc.evc ELSE doc.uni

\* if v: d[k] = v
PutIf(d, k, v) == IF Truthy(v) THEN Put(d, k, v) ELSE d

\* The date and contact updates of one loop iteration
MergeFields(rec, doc) ==
    LET contact_info == ParseContactInfo(doc)
        r1 == PutIf(rec, "date_sent", ParseDateInfo(doc))
        r2 == PutIf(r1, "contact_name", contact_info.name)
        r3 == PutIf(r2, "contact_phone", contact_info.phone)
    IN  PutIf(r3, "contact_email", contact_info.email)

\* AssignCircuit, were a primary-family token dropped once both slots are full
AssignCircuitDiscarding(rec, cir) ==
    IF HasEvcKey(cir)
    THEN IF rec["evc1"] = None
         THEN Put(rec, "evc1", cir)
         ELSE IF rec["evc2"] = None THEN Put(rec, "evc2", cir) ELSE rec
    ELSE IF HasUniKey(cir)
         THEN Put(rec, "uni", cir)
         ELSE rec

\* The slot assignment of one loop iteration, for a token cir that is not None
AssignCircuit(rec, cir) ==
    IF HasEvcKey(cir)
    THEN IF rec["evc1"] = None
         THEN Put(rec, "evc1", cir)
         ELSE Put(rec, "evc2", cir)
    ELSE IF HasUniKey(cir)
         THEN Put(rec, "uni", cir)
         ELSE rec

\* "x in cir" raises TypeError when cir is None
CircuitTestRaises(cir) == cir = None

\* The record _create_pon_dict starts from
NewPonDict(pon_num) ==
    [evc1 |-> None, evc2 |-> None, uni |-> None, tower_name |-> pon_num,
     contact_name |-> None, contact_phone |-> None, contact_email |-> None]

\* The loop of _create_pon_dict is over: exhausted, or left by the exception
LoopDone == process_dir # None /\ (raised \/ item = Len(listing))

\* create_full_dict enters the next order directory; _create_pon_dict lists it
StartDir ==
    /\ pc = "create"
    /\ process_dir = None
    /\ \E p \in todo :
         /\ todo' = todo \ {p}
         /\ process_dir' = p
         /\ dict_pon' = NewPonDict(p)
    /\ \E l \in Listings(PipeDocs, PipeMaxDocs) : listing' = l
    /\ item' = 0
    /\ raised' = FALSE
    /\ UNCHANGED <<pc, full_dict, key_order>>
    /\ UNCHANGED processVars
    /\ UNCHANGED exportVars

\* One iteration of the loop of _create_pon_dict
ReadDocument ==
    /\ pc = "create"
    /\ process_dir # None
    /\ ~LoopDone
    /\ LET doc == listing[item + 1]
           cir == ParseCircuitInfo(doc)
           merged == MergeFields(dict_pon, doc)
       IN  IF CircuitTestRaises(cir)
           THEN /\ dict_pon' = merged
                /\ raised' = TRUE
           ELSE /\ dict_pon' = AssignCircuit(merged, cir)
                /\ raised' = FALSE
    /\ item' = item + 1
    /\ UNCHANGED <<pc, todo, full_dict, key_order, process_dir, listing>>
    /\ UNCHANGED processVars
    /\ UNCHANGED exportVars

\* _create_pon_dict returns; create_full_dict merges the record into
\* full_dict. The locals die with the call: kept is what the model leaves in
\* listing afterwards.
ReturnTo(kept) ==
    /\ pc = "create"
    /\ LoopDone
    /\ full_dict' = Put(full_dict, process_dir, dict_pon)
    /\ key_order' = Append(key_order, process_dir)
    /\ process_dir' = None
    /\ listing' = kept
    /\ item' = 0
    /\ dict_pon' = EmptyDict
    /\ raised' = FALSE
    /\ UNCHANGED <<pc, todo>>
    /\ UNCHANGED processVars
    /\ UNCHANGED exportVars

\* The return of _create_pon_dict
ReturnDir == ReturnTo(<<>>)

\* The same return, with the listing of the directory kept on record
ReturnDirOnRecord == ReturnTo(listing)

----------------------------------------------------------------------------
(* Reference tables *)

\* Most rows the circuit reference table holds
MaxRows == 3

\* The distinct rows of the circuit reference table: the "Tower Name" column
\* (also columns_mapping["tower_column"]), the circuit column
\* columns_mapping["evc_column"] and the "CVLAN" cell as f"{...}" renders it
RowKinds ==
    {[tower |-> t, evc |-> c[1], cvlan |-> c[2]] :
        t \in Pons, c \in {<<"1.EVCTAG.A.", "10">>, <<"2.EVCTAG.B.", "20">>}}

RECURSIVE SumOver(_, _)
\* Sum of f over the finite set S
SumOver(f, S) ==
    IF S = {} THEN 0
    ELSE LET r == CHOOSE r \in S : TRUE IN f[r] + SumOver(f, S \ {r})

\* The circuit reference tables pl.read_csv can return: rows says how often
\* each row occurs, has_evc_column whether the configured circuit column is
\* among the columns of the file
LookupTables ==
    {[rows |-> n, has_evc_column |-> h] :
        n \in {n \in [RowKinds -> 0..MaxRows] : SumOver(n, RowKinds) <= MaxRows},
        h \in BOOLEAN}

\* The table before anything was read
NoLookup == [rows |-> [r \in RowKinds |-> 0], has_evc_column |-> TRUE]

\* len(lookup_df.filter(pl.col("Tower Name") == key))
TowerMatchCount(df, key) ==
    SumOver(df.rows, {r \in RowKinds : r.tower = key})

\* The rows lookup_df.filter([tower == tower_name, evc == evc_value]) keeps;
\* a comparison with None keeps no row
MatchingRows(df, tower_name, evc_value) ==
    {r \in RowKinds : df.rows[r] > 0 /\ r.tower = tower_name /\ r.evc = evc_value}

\* The site tables pl.read_excel can return: the row of each site it lists,
\* without its "Site Name" cell
AddressTables ==
    { [k \in {"PON_1234"} |-> [Address |-> "1 Main St", City |-> "Reston"]] }

----------------------------------------------------------------------------
(* PonDictProcessor *)

\* GetCvlan, were result.item() called whatever len(result) is: it raises
\* unless there is exactly one row
GetCvlanUnguarded(df, tower_name, evc_value) ==
    IF ~df.has_evc_column
    THEN [value |-> None, raised |-> TRUE]
    ELSE LET rows == MatchingRows(df, tower_name, evc_value)
             len == SumOver(df.rows, rows)
         IN  IF len = 1
             THEN [value |-> (CHOOSE r \in rows : TRUE).cvlan, raised |-> FALSE]
             ELSE [value |-> None, raised |-> TRUE]

\* _get_cvlan: the value returned and whether the except branch ran
GetCvlan(df, tower_name, evc_value) ==
    IF ~df.has_evc_column
    THEN [value |-> None, raised |-> TRUE]
    ELSE LET rows == MatchingRows(df, tower_name, evc_value)
             len == SumOver(df.rows, rows)
         IN  IF len = 1
             THEN [value |-> (CHOOSE r \in rows : TRUE).cvlan, raised |-> FALSE]
             ELSE [value |-> None, raised |-> FALSE]

RECURSIVE LStrip(_)
\* str.lstrip("/")
LStrip(s) == IF Len(s) > 0 /\ Head(s) = "/" THEN LStrip(Tail(s)) ELSE s

RECURSIVE RStrip(_)
\* str.rstrip("/")
RStrip(s) ==
    IF Len(s) > 0 /\ SubSeq(s, Len(s), Len(s)) = "/"
    THEN RStrip(SubSeq(s, 1, Len(s) - 1))
    ELSE s

\* v or ''
OrEmpty(v) == IF Truthy(v) THEN v ELSE ""

\* CombinedCvlan without the strip("/")
CombinedCvlanUnstripped(cvlan_evc1, cvlan_evc2) ==
    OrEmpty(cvlan_evc1) \o "/" \o OrEmpty(cvlan_evc2)

\* f"{cvlan_evc1 or ''}/{cvlan_evc2 or ''}".strip("/")
CombinedCvlan(cvlan_evc1, cvlan_evc2) ==
    RStrip(LStrip(OrEmpty(cvlan_evc1) \o "/" \o OrEmpty(cvlan_evc2)))

\* The body of the loop of add_cvlan_data for one record
CvlanOf(df, value) ==
    LET r1 == GetCvlan(df, value["tower_name"], value["evc1"])
        r2 == GetCvlan(df, value["tower_name"], value["evc2"])
    IN  [evc1 |-> r1.value, evc2 |-> r2.value,
         appended |-> (IF r1.raised THEN <<value["tower_name"]>> ELSE <<>>)
                      \o (IF r2.raised THEN <<value["tower_name"]>> ELSE <<>>)]

\* if combined_cvlan: value["cvlan"] = combined_cvlan
WithCvlan(df, value) ==
    LET c == CvlanOf(df, value)
    IN  PutIf(value, "cvlan", CombinedCvlan(c.evc1, c.evc2))

RECURSIVE SuspiciousTowers(_, _, _)
\* suspicious_towers after the loop of add_cvlan_data went through keys
SuspiciousTowers(df, d, keys) ==
    IF keys = <<>> THEN <<>>
    ELSE CvlanOf(df, d[Head(keys)]).appended \o SuspiciousTowers(df, d, Tail(keys))

\* process(): add_cvlan_data, reading the circuit reference table
AddCvlanData ==
    /\ pc = "create"
    /\ process_dir = None
    /\ todo = {}
    /\ \E df \in LookupTables :
         /\ lookup_df' = df
         /\ pon_dict' = [k \in DOMAIN full_dict |-> WithCvlan(df, full_dict[k])]
         /\ cvlan_slots' =
              [k \in DOMAIN full_dict |->
                  [evc1 |-> CvlanOf(df, full_dict[k]).evc1,
                   evc2 |-> CvlanOf(df, full_dict[k]).evc2]]
         /\ suspicious_towers' = SuspiciousTowers(df, full_dict, key_order)
    /\ pc' = "add_address_data"
    /\ UNCHANGED createVars
    /\ UNCHANGED exportVars
    /\ UNCHANGED <<address_df, sorted_by_type, sorted_by_date>>

\* process() left by an exception: its locals die with the call, and main(),
\* which has no handler either, never gets a result
ProcessRaises ==
    /\ pc' = "raised"
    /\ lookup_df' = NoLookup
    /\ address_df' = EmptyDict
    /\ pon_dict' = EmptyDict
    /\ suspicious_towers' = <<>>
    /\ cvlan_slots' = EmptyDict
    /\ sorted_by_type' = EmptyDict
    /\ sorted_by_date' = EmptyDict
    /\ UNCHANGED createVars
    /\ UNCHANGED exportVars

\* process(): add_cvlan_data, when pl.read_csv cannot load the circuit
\* reference table; the call stands outside every try block
ReadCsvRaises ==
    /\ pc = "create"
    /\ process_dir = None
    /\ todo = {}
    /\ ProcessRaises

\* value.update(site_info); value.pop("Site Name", None)
WithAddress(sites, key, value) ==
    IF key \in DOMAIN sites
    THEN [x \in DOMAIN value \cup DOMAIN sites[key] |->
            IF x \in DOMAIN sites[key] THEN sites[key][x] ELSE value[x]]
    ELSE value

\* process(): add_address_data, reading the site table
AddAddressData ==
    /\ pc = "add_address_data"
    /\ \E sites \in AddressTables :
         /\ address_df' = sites
         /\ pon_dict' = [k \in DOMAIN pon_dict |-> WithAddress(sites, k, pon_dict[k])]
    /\ pc' = "sort_by_type"
    /\ UNCHANGED createVars
    /\ UNCHANGED exportVars
    /\ UNCHANGED <<lookup_df, suspicious_towers, cvlan_slots, sorted_by_type, sorted_by_date>>

\* process(): add_address_data, when pl.read_excel cannot load the site
\* table; the try block of add_address_data starts inside the loop
ReadExcelRaises ==
    /\ pc = "add_address_data"
    /\ ProcessRaises

\* TypeOf with the bound on the tower rows off by one (>= 2 for > 2)
TypeOfOffByOne(tower_match_count, value) ==
    LET uni == Truthy(Get(value, "uni"))
        evc1 == Truthy(Get(value, "evc1"))
        evc2 == Truthy(Get(value, "evc2"))
    IN  IF tower_match_count >= 2
        THEN IF uni /\ evc1 /\ evc2 THEN "unievc"
             ELSE IF evc1 /\ evc2 /\ ~uni THEN "vlan"
             ELSE "no_type"
        ELSE IF uni /\ evc1 /\ evc2 THEN "fdisc"
             ELSE "no_type"

\* TypeOf, were evc2 left out of the tests
TypeOfWithoutEvc2(tower_match_count, value) ==
    LET uni == Truthy(Get(value, "uni"))
        evc1 == Truthy(Get(value, "evc1"))
    IN  IF tower_match_count > 2
        THEN IF uni /\ evc1 THEN "unievc"
             ELSE IF evc1 /\ ~uni THEN "vlan"
             ELSE "no_type"
        ELSE IF uni /\ evc1 THEN "fdisc"
             ELSE "no_type"

\* The leaf bucket sort_by_type files a record under
TypeOf(tower_match_count, value) ==
    LET uni == Truthy(Get(value, "uni"))
        evc1 == Truthy(Get(value, "evc1"))
        evc2 == Truthy(Get(value, "evc2"))
    IN  IF tower_match_count > 2
        THEN IF uni /\ evc1 /\ evc2 THEN "unievc"
             ELSE IF evc1 /\ evc2 /\ ~uni THEN "vlan"
             ELSE "no_type"
        ELSE IF uni /\ evc1 /\ evc2 THEN "fdisc"
             ELSE "no_type"

\* The entries of d that sort_by_type files under the leaf bucket
Filed(df, d, bucket) ==
    [k \in {k \in DOMAIN d : TypeOf(TowerMatchCount(df, k), d[k]) = bucket} |-> d[k]]

\* sort_by_type
SortByType(df, d) ==
    [pdisc |-> [vlan |-> Filed(df, d, "vlan"), unievc |-> Filed(df, d, "unievc")],
     fdisc |-> Filed(df, d, "fdisc"),
     no_type |-> Filed(df, d, "no_type")]

\* process(): sort_by_type, reading the circuit reference table again
SortByTypeStep ==
    /\ pc = "sort_by_type"
    /\ sorted_by_type' = SortByType(lookup_df, pon_dict)
    /\ pc' = "sort_by_date"
    /\ UNCHANGED createVars
    /\ UNCHANGED exportVars
    /\ UNCHANGED <<lookup_df, address_df, pon_dict, suspicious_towers, cvlan_slots,
                   sorted_by_date>>

\* process(): sort_by_type, when its own pl.read_csv cannot load the circuit
\* reference table
SortByTypeRaises ==
    /\ pc = "sort_by_type"
    /\ ProcessRaises

\* GroupEntries without the test "if date_sent": a record without date is
\* grouped under None
GroupEntriesUntested(entries) ==
    [date_sent \in {Get(entries[k], "date_sent") : k \in DOMAIN entries} |->
        [k \in {k \in DOMAIN entries : Get(entries[k], "date_sent") = date_sent} |->
            entries[k]]]

\* GroupEntries, were the date taken out of the record (pop for get)
GroupEntriesPopping(entries) ==
    LET dated == {k \in DOMAIN entries : Truthy(Get(entries[k], "date_sent"))}
    IN  [date_sent \in {entries[k]["date_sent"] : k \in dated} |->
            [k \in {k \in dated : entries[k]["date_sent"] = date_sent} |->
                [x \in DOMAIN entries[k] \ {"date_sent"} |-> entries[k][x]]]]

\* group_entries(entries, target), on a target that starts empty
GroupEntries(entries) ==
    LET dated == {k \in DOMAIN entries : Truthy(Get(entries[k], "date_sent"))}
    IN  [date_sent \in {entries[k]["date_sent"] : k \in dated} |->
            [k \in {k \in dated : entries[k]["date_sent"] = date_sent} |-> entries[k]]]

\* The sections sort_by_date looks up in grouped_dict (a defaultdict creates
\* the section on lookup), under "pdisc" and at the top level
PdiscSections == {"unievc", "vlan"}
TopSections == {"fdisc", "no_type"}

\* SortByDate, were a section created only by the first record filed in it
SortByDateLazy(d) ==
    LET all == [section \in PdiscSections \cup TopSections |->
                  IF section \in PdiscSections
                  THEN GroupEntries(d["pdisc"][section])
                  ELSE GroupEntries(d[section])]
    IN  [section \in {x \in DOMAIN all : all[x] # EmptyDict} |-> all[section]]

\* sort_by_date
SortByDate(d) ==
    [section \in PdiscSections \cup TopSections |->
        IF section \in PdiscSections
        THEN GroupEntries(d["pdisc"][section])
        ELSE GroupEntries(d[section])]

\* process(): sort_by_date, and the return of its result
SortByDateStep ==
    /\ pc = "sort_by_date"
    /\ sorted_by_date' = SortByDate(sorted_by_type)
    /\ pc' = "done"
    /\ UNCHANGED createVars
    /\ UNCHANGED exportVars
    /\ UNCHANGED <<lookup_df, address_df, pon_dict, suspicious_towers, cvlan_slots,
                   sorted_by_type>>

----------------------------------------------------------------------------
(* Exporter *)

\* The characters of the cell references, by str.isalpha and str.isdigit
Alpha == {"A", "B", "G"}
Digits == {"0", "1", "2", "3", "4", "5", "6", "7", "8", "9"}

RECURSIVE Filter(_, _)
\* ''.join(filter(test, s)): the characters of s that are in chars
Filter(s, chars) ==
    IF s = "" THEN ""
    ELSE (IF SubSeq(s, 1, 1) \in chars THEN SubSeq(s, 1, 1) ELSE "")
         \o Filter(Tail(s), chars)

\* int(c) for one digit
DigitValue(c) ==
    CASE c = "0" -> 0 [] c = "1" -> 1 [] c = "2" -> 2 [] c = "3" -> 3
      [] c = "4" -> 4 [] c = "5" -> 5 [] c = "6" -> 6 [] c = "7" -> 7
      [] c = "8" -> 8 [] c = "9" -> 9

RECURSIVE ToInt(_)
\* int(s) for a string of digits
ToInt(s) ==
    IF Len(s) = 1 THEN DigitValue(s)
    ELSE ToInt(SubSeq(s, 1, Len(s) - 1)) * 10 + DigitValue(SubSeq(s, Len(s), Len(s)))

\* ''.join(filter(str.isalpha, cell))
ColumnLetters(cell) == Filter(cell, Alpha)

\* int(''.join(filter(str.isdigit, cell)))
RowNumber(cell) == ToInt(Filter(cell, Digits))

\* cell[:1]
FirstCharacter(cell) == SubSeq(cell, 1, 1)

\* The sheet mappings of config["cell_mapping"]: one with single-letter
\* columns, one whose cvlan column has two letters, one without cvlan
CellMappings ==
    { << <<"A14", "contact_name">>, <<"B14", "cvlan">> >>,
      << <<"B14", "contact_name">>, <<"AG14", "cvlan">> >>,
      << <<"A14", "contact_name">> >> }

\* The columns of the template sheet
SheetColumns == {"A", "B", "AG"}

\* Rows of the template, from the first mapped row on, that may hold values
TemplateRows == 2

\* Most records handed to one export call
MaxRecords == 2

\* The templates: any cells of the rows from first_row on hold a value
Templates(first_row) ==
    {[c \in cells |-> "old"] :
        cells \in SUBSET (SheetColumns \X (first_row..(first_row + TemplateRows - 1)))}

\* The records process() hands on, as far as the mapped fields go
ExportRecords ==
    {Put(NewPonDict(p), "contact_name", n) : p \in {"PON_1234"}, n \in {None, "Ann Lee"}}
    \cup {Put(Put(NewPonDict(p), "contact_name", n), "cvlan", "10") :
             p \in {"PON_1234"}, n \in {None, "Ann Lee"}}

\* sheet[f"{col}{row}"].value
CellValue(sh, col, row) == IF <<col, row>> \in DOMAIN sh THEN sh[<<col, row>>] ELSE None

\* target_key is among the values of the mapping
HasKey(mapping, target_key) == \E i \in 1..Len(mapping) : mapping[i][2] = target_key

\* _get_column_and_start_row, for a mapping that has target_key
GetColumnAndStartRow(mapping, target_key) ==
    LET i == CHOOSE i \in 1..Len(mapping) :
                 /\ mapping[i][2] = target_key
                 /\ \A j \in 1..(i - 1) : mapping[j][2] # target_key
    IN  [column |-> ColumnLetters(mapping[i][1]), start_row |-> RowNumber(mapping[i][1])]

\* [cell[:1] for cell in sheet_mapping.keys()]: the columns the free-row test
\* looks at
CheckedColumns(mapping) == {FirstCharacter(mapping[i][1]) : i \in 1..Len(mapping)}

RECURSIVE FreeRow(_, _, _)
\* The while loop of export: the first row from row on in which the checked
\* columns hold no value
FreeRow(sh, cols, row) ==
    IF \E col \in cols : CellValue(sh, col, row) # None
    THEN FreeRow(sh, cols, row + 1)
    ELSE row

\* The mapping entries whose field export writes for row_data
Written(mapping, row_data) ==
    {i \in 1..Len(mapping) : Get(row_data, mapping[i][2]) # None}

\* The sheet after the mapped fields of row_data were written to row
WriteRow(sh, mapping, row_data, row) ==
    LET writes == Written(mapping, row_data)
        cells == {<<ColumnLetters(mapping[i][1]), row>> : i \in writes}
        last(cell) == CHOOSE i \in writes :
                          /\ <<ColumnLetters(mapping[i][1]), row>> = cell
                          /\ \A j \in writes :
                                <<ColumnLetters(mapping[j][1]), row>> = cell => j <= i
    IN  [cell \in DOMAIN sh \cup cells |->
            IF cell \in cells THEN row_data[mapping[last(cell)][2]] ELSE sh[cell]]

\* No export call is under way
ExportIdle ==
    /\ xpc = "idle"
    /\ template = EmptyDict
    /\ sheet_mapping = <<>>
    /\ data = <<>>
    /\ sheet = EmptyDict
    /\ fills = {}
    /\ current_row = 0
    /\ exported = <<>>

\* export: the workbook is loaded, the sheet has a cvlan column
OpenSheet ==
    /\ xpc = "open"
    /\ HasKey(sheet_mapping, "cvlan")
    /\ sheet' = template
    /\ current_row' = GetColumnAndStartRow(sheet_mapping, "cvlan").start_row
    /\ xpc' = "rows"
    /\ UNCHANGED <<template, sheet_mapping, data, fills, exported>>
    /\ UNCHANGED <<pc, createVars, processVars>>

\* export: _get_column_and_start_row raises ValueError, the sheet is skipped
\* and the workbook saved as it was loaded
SkipSheet ==
    /\ xpc = "open"
    /\ ~HasKey(sheet_mapping, "cvlan")
    /\ sheet' = template
    /\ xpc' = "saved"
    /\ UNCHANGED <<template, sheet_mapping, data, fills, current_row, exported>>
    /\ UNCHANGED <<pc, createVars, processVars>>

\* export: one iteration of the loop over data.values()
ExportRow ==
    /\ xpc = "rows"
    /\ Len(exported) < Len(data)
    /\ LET row_data == data[Len(exported) + 1]
           ag_column == GetColumnAndStartRow(sheet_mapping, "cvlan").column
           row == FreeRow(sheet, CheckedColumns(sheet_mapping), current_row)
           row_filled == Written(sheet_mapping, row_data) # {}
           written == WriteRow(sheet, sheet_mapping, row_data, row)
       IN  /\ sheet' = written
           /\ fills' = IF CellValue(written, ag_column, row) = None /\ row_filled
                       THEN fills \cup {row}
                       ELSE fills
           /\ current_row' = row + 1
           /\ exported' = Append(exported, row)
    /\ UNCHANGED <<xpc, template, sheet_mapping, data>>
    /\ UNCHANGED <<pc, createVars, processVars>>

\* export: the loop is over, workbook.save
SaveWorkbook ==
    /\ xpc = "rows"
    /\ Len(exported) = Len(data)
    /\ xpc' = "saved"
    /\ UNCHANGED <<template, sheet_mapping, data, sheet, fills, current_row, exported>>
    /\ UNCHANGED <<pc, createVars, processVars>>

----------------------------------------------------------------------------
(* Specifications *)

\* main() after construction: the order directories are in tmp_dir, nothing
\* has been read
Init ==
    /\ pc = "create"
    /\ todo \in SUBSET Pons
    /\ full_dict = EmptyDict
    /\ key_order = <<>>
    /\ process_dir = None
    /\ listing = <<>>
    /\ item = 0
    /\ dict_pon = EmptyDict
    /\ raised = FALSE
    /\ lookup_df = NoLookup
    /\ address_df = EmptyDict
    /\ pon_dict = EmptyDict
    /\ suspicious_towers = <<>>
    /\ cvlan_slots = EmptyDict
    /\ sorted_by_type = EmptyDict
    /\ sorted_by_date = EmptyDict
    /\ ExportIdle

Next ==
    \/ StartDir
    \/ ReadDocument
    \/ ReturnDir
    \/ AddCvlanData
    \/ ReadCsvRaises
    \/ AddAddressData
    \/ ReadExcelRaises
    \/ SortByTypeStep
    \/ SortByTypeRaises
    \/ SortByDateStep

\* The whole run: create_full_dict, then process
Spec == Init /\ [][Next]_vars

\* _create_pon_dict entered for one order directory holding any listing of
\* BuildDocs
InitBuild ==
    /\ pc = "create"
    /\ todo = {}
    /\ full_dict = EmptyDict
    /\ key_order = <<>>
    /\ process_dir \in Pons
    /\ listing \in Listings(BuildDocs, MaxDocs)
    /\ item = 0
    /\ dict_pon = NewPonDict(process_dir)
    /\ raised = FALSE
    /\ lookup_df = NoLookup
    /\ address_df = EmptyDict
    /\ pon_dict = EmptyDict
    /\ suspicious_towers = <<>>
    /\ cvlan_slots = EmptyDict
    /\ sorted_by_type = EmptyDict
    /\ sorted_by_date = EmptyDict
    /\ ExportIdle

NextBuild ==
    \/ ReadDocument
    \/ ReturnDir

\* One call of _create_pon_dict
SpecBuild == InitBuild /\ [][NextBuild]_vars

\* main() with a single order directory, _create_pon_dict entered for it
InitOrder ==
    /\ pc = "create"
    /\ todo = {}
    /\ full_dict = EmptyDict
    /\ key_order = <<>>
    /\ process_dir \in Pons
    /\ listing \in Listings(PipeDocs, PipeMaxDocs)
    /\ item = 0
    /\ dict_pon = NewPonDict(process_dir)
    /\ raised = FALSE
    /\ lookup_df = NoLookup
    /\ address_df = EmptyDict
    /\ pon_dict = EmptyDict
    /\ suspicious_towers = <<>>
    /\ cvlan_slots = EmptyDict
    /\ sorted_by_type = EmptyDict
    /\ sorted_by_date = EmptyDict
    /\ ExportIdle

NextOrder ==
    \/ ReadDocument
    \/ ReturnDirOnRecord
    \/ AddCvlanData
    \/ ReadCsvRaises
    \/ AddAddressData
    \/ ReadExcelRaises
    \/ SortByTypeStep
    \/ SortByTypeRaises
    \/ SortByDateStep

\* The whole run for one order, the documents it read kept on record
SpecOrder == InitOrder /\ [][NextOrder]_vars

\* Exporter.export entered for one sheet: any mapping, any template, any
\* records
InitExport ==
    /\ pc = "done"
    /\ todo = {}
    /\ full_dict = EmptyDict
    /\ key_order = <<>>
    /\ process_dir = None
    /\ listing = <<>>
    /\ item = 0
    /\ dict_pon = EmptyDict
    /\ raised = FALSE
    /\ lookup_df = NoLookup
    /\ address_df = EmptyDict
    /\ pon_dict = EmptyDict
    /\ suspicious_towers = <<>>
    /\ cvlan_slots = EmptyDict
    /\ sorted_by_type = EmptyDict
    /\ sorted_by_date = EmptyDict
    /\ xpc = "open"
    /\ sheet_mapping \in CellMappings
    /\ template \in Templates(RowNumber(sheet_mapping[1][1]))
    /\ data \in UNION {[1..n -> ExportRecords] : n \in 0..MaxRecords}
    /\ sheet = EmptyDict
    /\ fills = {}
    /\ current_row = 0
    /\ exported = <<>>

NextExport ==
    \/ OpenSheet
    \/ SkipSheet
    \/ ExportRow
    \/ SaveWorkbook

\* One call of Exporter.export, for one sheet
SpecExport == InitExport /\ [][NextExport]_vars

----------------------------------------------------------------------------
(* Record Builder properties, under SpecBuild *)

\* The tokens that the documents consumed so far handed to the slot
\* assignment and that carry the primary-family key, in order
RECURSIVE PrimaryTokens(_, _)
PrimaryTokens(docs, n) ==
    IF n = 0 THEN <<>>
    ELSE LET cir == ParseCircuitInfo(docs[n])
         IN  IF Truthy(cir) /\ HasEvcKey(cir)
             THEN Append(PrimaryTokens(docs, n - 1), cir)
             ELSE PrimaryTokens(docs, n - 1)

\* The listing is three documents, each yielding a primary-family token
ThreePrimaryTokens ==
    /\ Len(listing) = 3
    /\ \A i \in 1..3 : Truthy(listing[i].evc)

\* C2 as stated: after three documents yielding the primary-family tokens
\* A, B, C the record holds evc1 = A and evc2 = B, C being discarded.
C2_ThirdTokenDiscarded ==
    (LoopDone /\ ThreePrimaryTokens) =>
        /\ dict_pon["evc1"] = listing[1].evc
        /\ dict_pon["evc2"] = listing[2].evc

\* C2 amended: evc1 holds the first primary-family token and is never changed
\* afterwards; evc2 holds the last primary-family token after the first one, so
\* after the tokens A, B, C the record holds evc1 = A and evc2 = C.
C2_FirstAndLastToken ==
    process_dir # None =>
        LET toks == PrimaryTokens(listing, item)
        IN  /\ dict_pon["evc1"] = (IF Len(toks) >= 1 THEN toks[1] ELSE None)
            /\ dict_pon["evc2"] = (IF Len(toks) >= 2 THEN toks[Len(toks)] ELSE None)
            /\ (LoopDone /\ ThreePrimaryTokens) =>
                  /\ dict_pon["evc1"] = listing[1].evc
                  /\ dict_pon["evc2"] = listing[3].evc

\* Three documents with three different primary-family tokens were consumed
C2_Witness ==
    /\ LoopDone
    /\ ThreePrimaryTokens
    /\ Cardinality({listing[i].evc : i \in 1..3}) = 3
    /\ dict_pon["evc2"] = listing[3].evc

\* C3: a document without circuit token leaves the record as it is and the
\* builder goes on: when the builder returns, it has consumed every document
\* of the listing, and every token a document yields sits in a slot.
C3_BuilderGoesOn ==
    LoopDone =>
        /\ item = Len(listing)
        /\ \A i \in 1..Len(listing) :
              Truthy(ParseCircuitInfo(listing[i])) =>
                  \/ dict_pon["evc1"] # None
                  \/ dict_pon["uni"] # None

\* The value of field f in the last of the first n documents that carries
\* one (None if none does)
RECURSIVE LastYield(_, _, _)
LastYield(docs, n, f) ==
    IF n = 0 THEN None
    ELSE IF Truthy(docs[n][f]) THEN docs[n][f]
    ELSE LastYield(docs, n - 1, f)

\* C4: when the builder returns, date and contact fields each hold the value
\* of the last document of the listing that yields one.
C4_LastDocumentWins ==
    LoopDone =>
        /\ Get(dict_pon, "date_sent") = LastYield(listing, Len(listing), "date")
        /\ dict_pon["contact_name"] = LastYield(listing, Len(listing), "name")
        /\ dict_pon["contact_phone"] = LastYield(listing, Len(listing), "phone")
        /\ dict_pon["contact_email"] = LastYield(listing, Len(listing), "email")

----------------------------------------------------------------------------
(* Enrichment properties, under Spec *)

\* add_cvlan_data has returned
Enriched == pc \in {"add_address_data", "sort_by_type", "sort_by_date", "done"}

\* The two circuit slots of a record
Slots == {"evc1", "evc2"}

\* The elements of a list
Elements(list) == {list[i] : i \in 1..Len(list)}

\* Number of rows of the table that the query for the slot of record k matches
RowsMatched(k, slot) ==
    SumOver(lookup_df.rows,
            {r \in RowKinds : r.tower = full_dict[k]["tower_name"]
                              /\ r.evc = full_dict[k][slot]})

\* The query for a slot raises a lookup error: the circuit column is missing
QueryRaises == ~lookup_df.has_evc_column

\* C5: a slot query that matches more than one row, or raises, leaves the
\* slot's tag absent and puts the record's identifier on the suspicious list;
\* every record is still processed.
C5_AmbiguousIsSuspicious ==
    Enriched =>
        /\ DOMAIN pon_dict = DOMAIN full_dict
        /\ \A k \in DOMAIN full_dict : \A slot \in Slots :
              (QueryRaises \/ RowsMatched(k, slot) > 1) =>
                  /\ cvlan_slots[k][slot] = None
                  /\ k \in Elements(suspicious_towers)

\* C6 as stated: a slot query matching no row (an empty slot included) leaves
\* the tag absent and puts the order id on the suspicious list.
C6_ZeroRowsSuspicious ==
    Enriched =>
        \A k \in DOMAIN full_dict : \A slot \in Slots :
            (~QueryRaises /\ RowsMatched(k, slot) = 0) =>
                /\ k \in DOMAIN pon_dict
                /\ cvlan_slots[k][slot] = None
                /\ k \in Elements(suspicious_towers)

\* C6 amended: a slot query matching no row (an empty slot included) does not
\* raise and leaves the tag absent, and it does not put the order id on the
\* suspicious list: the list holds an id once for every query of that record
\* that raised, and nothing else.
C6_ZeroRowsTagAbsent ==
    Enriched =>
        /\ \A k \in DOMAIN full_dict : \A slot \in Slots :
              (~QueryRaises /\ RowsMatched(k, slot) = 0) =>
                  /\ k \in DOMAIN pon_dict
                  /\ cvlan_slots[k][slot] = None
                  /\ k \notin Elements(suspicious_towers)
        /\ \A k \in DOMAIN full_dict :
              Cardinality({i \in 1..Len(suspicious_towers) : suspicious_towers[i] = k})
                  = (IF QueryRaises THEN Cardinality(Slots) ELSE 0)

\* A record with a filled slot that matches no row, and an empty slot
C6_Witness ==
    /\ Enriched
    /\ ~QueryRaises
    /\ \E k \in DOMAIN full_dict :
          /\ full_dict[k]["evc1"] # None
          /\ RowsMatched(k, "evc1") = 0
          /\ full_dict[k]["evc2"] = None
          /\ "cvlan" \notin DOMAIN pon_dict[k]

\* C7: the composite tag is tagA/tagB when both slots resolve, the one tag
\* alone when exactly one resolves, and is not set when neither does.
C7_CompositeTag ==
    Enriched =>
        \A k \in DOMAIN pon_dict :
            LET a == cvlan_slots[k]["evc1"]
                b == cvlan_slots[k]["evc2"]
            IN  /\ (a # None /\ b # None) => Get(pon_dict[k], "cvlan") = a \o "/" \o b
                /\ (a # None /\ b = None) => Get(pon_dict[k], "cvlan") = a
                /\ (a = None /\ b # None) => Get(pon_dict[k], "cvlan") = b
                /\ (a = None /\ b = None) => "cvlan" \notin DOMAIN pon_dict[k]

\* One record with only slot A resolved to "10", another with both resolved
C7_Witness ==
    /\ Enriched
    /\ \E k \in DOMAIN pon_dict :
          /\ cvlan_slots[k] = [evc1 |-> "10", evc2 |-> None]
          /\ pon_dict[k]["cvlan"] = "10"
    /\ \E k \in DOMAIN pon_dict :
          /\ cvlan_slots[k] = [evc1 |-> "10", evc2 |-> "20"]
          /\ pon_dict[k]["cvlan"] = "10/20"

----------------------------------------------------------------------------
(* Classifier and Grouper properties, under Spec *)

\* The four leaf buckets
LeafBuckets == {"unievc", "vlan", "fdisc", "no_type"}

\* A leaf bucket of the result of sort_by_type
Leaf(sd, bucket) ==
    IF bucket \in {"unievc", "vlan"} THEN sd["pdisc"][bucket] ELSE sd[bucket]

\* sort_by_type has returned
Classified == pc \in {"sort_by_date", "done"}

\* The decision table: tower_match_count, has_access, has_p, has_s
TableBucket(count, has_access, has_p, has_s) ==
    CASE count > 2 /\ has_access /\ has_p /\ has_s -> "unievc"
      [] count > 2 /\ ~has_access /\ has_p /\ has_s -> "vlan"
      [] count <= 2 /\ has_access /\ has_p /\ has_s -> "fdisc"
      [] OTHER -> "no_type"

\* C1: sort_by_type puts every record, unchanged, into exactly one leaf bucket,
\* the one the decision table names for its tower match count and the presence
\* of uni, evc1 and evc2.
C1_DecisionTable ==
    Classified =>
        \A k \in DOMAIN pon_dict :
            LET want == TableBucket(TowerMatchCount(lookup_df, k),
                                    pon_dict[k]["uni"] # None,
                                    pon_dict[k]["evc1"] # None,
                                    pon_dict[k]["evc2"] # None)
            IN  /\ {b \in LeafBuckets : k \in DOMAIN Leaf(sorted_by_type, b)} = {want}
                /\ Leaf(sorted_by_type, want)[k] = pon_dict[k]

\* A record in pdisc.unievc and another in fdisc
C1_Witness ==
    /\ Classified
    /\ DOMAIN Leaf(sorted_by_type, "unievc") # {}
    /\ DOMAIN Leaf(sorted_by_type, "fdisc") # {}

\* The keys filed anywhere under the result of sort_by_date
Grouped ==
    UNION {DOMAIN sorted_by_date[b][d] : <<b, d>> \in
              {<<b, d>> \in LeafBuckets \X (Dates \cup {None}) :
                  b \in DOMAIN sorted_by_date /\ d \in DOMAIN sorted_by_date[b]}}

\* C8: a record without date_sent is in no bucket of the result of
\* sort_by_date, and every record in a bucket is filed under dates only.
C8_UndatedDropped ==
    pc = "done" =>
        /\ \A k \in DOMAIN pon_dict :
              "date_sent" \notin DOMAIN pon_dict[k] => k \notin Grouped
        /\ \A b \in DOMAIN sorted_by_date : None \notin DOMAIN sorted_by_date[b]

\* A record with every circuit set but no date was dropped, another was kept
C8_Witness ==
    /\ pc = "done"
    /\ \E k \in DOMAIN pon_dict :
          /\ "date_sent" \notin DOMAIN pon_dict[k]
          /\ pon_dict[k]["evc1"] # None
          /\ pon_dict[k]["evc2"] # None
          /\ pon_dict[k]["uni"] # None
          /\ k \notin Grouped
    /\ Grouped # {}

\* C9: the result of sort_by_date has the four leaf buckets as its keys, and
\* record k is at [b][d][k] exactly if it is in leaf bucket b of the classified
\* collection with date_sent d; it is the same record.
C9_GroupedShape ==
    pc = "done" =>
        /\ DOMAIN sorted_by_date = LeafBuckets
        /\ \A b \in LeafBuckets : \A k \in DOMAIN pon_dict :
              \A d \in Dates \cup {None} :
                  LET filed == /\ d \in DOMAIN sorted_by_date[b]
                               /\ k \in DOMAIN sorted_by_date[b][d]
                      due == /\ k \in DOMAIN Leaf(sorted_by_type, b)
                             /\ d # None
                             /\ Get(Leaf(sorted_by_type, b)[k], "date_sent") = d
                  IN  /\ filed <=> due
                      /\ filed => sorted_by_date[b][d][k] = Leaf(sorted_by_type, b)[k]
        /\ \A b \in LeafBuckets : \A d \in DOMAIN sorted_by_date[b] :
              /\ d \in Dates
              /\ DOMAIN sorted_by_date[b][d] \subseteq DOMAIN pon_dict

\* Two records grouped under different buckets and dates, other buckets empty
C9_Witness ==
    /\ pc = "done"
    /\ \E b1, b2 \in LeafBuckets :
          /\ b1 # b2
          /\ "01-02-2024" \in DOMAIN sorted_by_date[b1]
          /\ "03-04-2024" \in DOMAIN sorted_by_date[b2]
    /\ \E b \in LeafBuckets : sorted_by_date[b] = EmptyDict

----------------------------------------------------------------------------
(* End to end, under SpecOrder *)

\* The order of the scenario: two documents, the first yielding a
\* primary-family token, the second an access-family token, sent-date
\* 01-02-2024, and three rows of the reference table for its tower
Scenario ==
    /\ pc = "done"
    /\ Len(listing) = 2
    /\ Truthy(listing[1].evc)
    /\ ~Truthy(listing[2].evc) /\ Truthy(listing[2].uni)
    /\ LastYield(listing, 2, "date") = "01-02-2024"
    /\ TowerMatchCount(lookup_df, key_order[1]) = 3

\* C10 as stated: the order of the scenario is grouped under pdisc.unievc
\* (category_A.subtype_2) and date 01-02-2024.
C10_LandsInUnievc ==
    Scenario =>
        /\ "01-02-2024" \in DOMAIN sorted_by_date["unievc"]
        /\ key_order[1] \in DOMAIN sorted_by_date["unievc"]["01-02-2024"]

\* C10 amended: the order of the scenario has no second primary-family token,
\* so it is grouped under no_type (unclassified) and date 01-02-2024, and
\* under no other bucket.
C10_LandsInNoType ==
    Scenario =>
        /\ "01-02-2024" \in DOMAIN sorted_by_date["no_type"]
        /\ key_order[1] \in DOMAIN sorted_by_date["no_type"]["01-02-2024"]
        /\ \A b \in LeafBuckets \ {"no_type"} : sorted_by_date[b] = EmptyDict

\* The scenario was run to the end
C10_Witness ==
    /\ Scenario
    /\ full_dict[key_order[1]]["evc1"] = "1.EVCTAG.A."
    /\ full_dict[key_order[1]]["uni"] = "1.UNITAG.Y."
    /\ sorted_by_date["no_type"] # EmptyDict

----------------------------------------------------------------------------
(* The access-family slot, under SpecBuild *)

\* The document's token came back through the access-family label
ThroughAccessLabel(doc) == ~Truthy(doc.evc) /\ Truthy(doc.uni)

RECURSIVE LastAccessToken(_, _)
\* The token of the last of the first n documents whose token came back
\* through the access-family label, None when there is none
LastAccessToken(docs, n) ==
    IF n = 0 THEN None
    ELSE IF ThroughAccessLabel(docs[n]) THEN docs[n].uni
         ELSE LastAccessToken(docs, n - 1)

\* C12: once the documents of an order were gone through, uni (access_circuit)
\* holds the last token the extractor returned through the access-family
\* label, and no such token was written to evc1 (circuit_primary) or evc2
\* (circuit_secondary).
C12_AccessTokenWins ==
    LoopDone =>
        /\ dict_pon["uni"] = LastAccessToken(listing, Len(listing))
        /\ \A n \in 1..Len(listing) :
             ThroughAccessLabel(listing[n]) =>
                 listing[n].uni \notin {dict_pon["evc1"], dict_pon["evc2"]}

----------------------------------------------------------------------------
(* Grouping once more, under Spec *)

\* The records of one leaf bucket of a grouped collection, the date level
\* taken away
FlatLeaf(groups) ==
    [k \in UNION {DOMAIN groups[d] : d \in DOMAIN groups} |->
        groups[CHOOSE d \in DOMAIN groups : k \in DOMAIN groups[d]][k]]

\* A grouped collection flattened back into the leaf buckets of a classified
\* collection
Flatten(g) ==
    [pdisc |-> [vlan |-> FlatLeaf(g["vlan"]), unievc |-> FlatLeaf(g["unievc"])],
     fdisc |-> FlatLeaf(g["fdisc"]),
     no_type |-> FlatLeaf(g["no_type"])]

\* C13: grouping is idempotent: the records of the result of sort_by_date,
\* flattened back into their leaf buckets and grouped by sort_by_date again,
\* give the same grouped collection.
C13_GroupingIdempotent ==
    pc = "done" => SortByDate(Flatten(sorted_by_date)) = sorted_by_date

\* A record with all three circuit slots set was grouped under its date while
\* an undated record was dropped
C13_Witness ==
    /\ pc = "done"
    /\ \E b \in LeafBuckets \ {"no_type"} : sorted_by_date[b] # EmptyDict
    /\ DOMAIN pon_dict \ Grouped # {}

----------------------------------------------------------------------------
(* Stage boundaries, under Spec *)

\* C11: no exception crosses a stage boundary: whether or not the reference
\* tables can be loaded and the documents opened, process() is never left by
\* an exception while records built by create_full_dict wait for their
\* best-effort output.
C11_NoExceptionCrosses == ~(pc = "raised" /\ full_dict # EmptyDict)

----------------------------------------------------------------------------
(* Exporter properties, under SpecExport *)

\* The columns the mapping names
MappedColumns == {ColumnLetters(sheet_mapping[i][1]) : i \in 1..Len(sheet_mapping)}

\* A mapped field other than cvlan was written for the record
OtherFieldWritten(row_data) ==
    \E i \in Written(sheet_mapping, row_data) : sheet_mapping[i][2] # "cvlan"

\* C14: the row a record was written to is highlighted exactly if the record
\* has no cvlan (composite secondary tag) while another mapped field of it was
\* written.
C14_FlaggedIffTagAbsent ==
    \A i \in 1..Len(exported) :
        exported[i] \in fills <=>
            (Get(data[i], "cvlan") = None /\ OtherFieldWritten(data[i]))

\* C15: a cell of a mapped column that held a value in the template still
\* holds that value, and no two records of the call were written to the same
\* row.
C15_NextFreeRow ==
    xpc \in {"rows", "saved"} =>
        /\ \A cell \in DOMAIN template :
              cell[1] \in MappedColumns => CellValue(sheet, cell[1], cell[2]) = template[cell]
        /\ \A i, j \in 1..Len(exported) : i # j => exported[i] # exported[j]

====
